---- MODULE Spec2Model ----
(***************************************************************************)
(* State-machine model of the alert-analysis service:                      *)
(*   - utils/fallback_manager.py  FallbackManager (ordered provider        *)
(*     fallback, provider status),                                         *)
(*   - utils/model_factory.py     ModelFactory (provider construction),    *)
(*   - config.py                  Config (startup validation),             *)
(*   - app.py                     health snapshot cache, background        *)
(*     poller, GET /health.                                                *)
(* Provider SDKs, the network and the clock are the environment: their     *)
(* results are chosen nondeterministically from the outcomes the code      *)
(* distinguishes.                                                          *)
(***************************************************************************)
EXTENDS Integers, Sequences, FiniteSets, TLC

VARIABLES
    \* ---- config.py: class attributes read once from the environment
    AI_MODEL_PROVIDER,   \* Config.AI_MODEL_PROVIDER
    credentials,         \* backends whose credential / base URL is set
    \* ---- FallbackManager instance (fallback_manager.py:11-18)
    arg_primary,         \* constructor argument primary_provider
    arg_fallbacks,       \* constructor argument fallback_providers (<<>> = None, <<l>> = list l)
    primary_provider,    \* self.primary_provider
    fallback_providers,  \* self.fallback_providers
    \* ---- one analyze_with_fallback call (fallback_manager.py:33-88)
    fm_pc,               \* position of the call
    providers_to_try,    \* local providers_to_try
    idx,                 \* 1-based position of the for loop in providers_to_try
    provider,            \* <<>> or <<instance>>: local provider of this iteration
    last_error,          \* local last_error
    outcome,             \* <<>> or <<returned dict>>
    calls,               \* history: provider operations performed, in order
    \* ---- app.py process
    main_pc,             \* module start-up position
    heap,                \* snapshot dicts ever allocated, by object identity
    health_state,        \* global _health_state: identity of the current dict
    poll_pc,             \* background thread position
    polls,               \* number of completed poll cycles (history)
    now,                 \* clock read by time.time()
    poll_log,            \* history: per cycle, what get_provider_status did
    rd_pc,               \* per GET /health handler: position
    rd_status,           \* per handler: local status
    rd_code,             \* per handler: local status_code
    rd_resp,             \* per handler: <<>> or <<[code, body]>> sent
    lv_resp,             \* GET /live: <<>> or <<response>> sent
    \* ---- app.py: POST /alert handler (lines 86-204)
    al_pc,               \* position of the handler
    al_body,             \* kind of request body being handled
    al_resp,             \* <<>> or <<[code, json]>> returned
    al_served,           \* number of requests answered (history)
    sink_log,            \* history: payloads posted to the webhook for this request
    \* ---- app.py: GET /status handler and FallbackManager.get_provider_status
    st_pc,               \* position inside get_provider_status / the handler
    st_avail,            \* local available_providers
    st_i,                \* position of the loop over available_providers
    st_status,           \* local status dict built so far
    st_error,            \* exception propagating out of get_provider_status, or None
    st_calls,            \* history: constructor and validate_credentials calls
    st_resp,             \* <<>> or <<[code, json]>> returned
    \* ---- models/openai.py, models/claude.py: concurrent provider constructors
    environ,             \* os.environ restricted to the proxy variables that are set
    environ0,            \* os.environ before any constructor ran
    ct_pc,               \* per constructor call: position
    ct_i,                \* per call: position of the loop over proxy_vars
    ct_saved,            \* per call: keys of the local original_env, in insertion order
    ct_result            \* per call: <<>> or <<outcome>>

cfg_vars == <<AI_MODEL_PROVIDER, credentials>>
mgr_vars == <<arg_primary, arg_fallbacks, primary_provider, fallback_providers>>
call_vars == <<fm_pc, providers_to_try, idx, provider, last_error, outcome, calls>>
app_vars == <<main_pc, heap, health_state, poll_pc, polls, now, poll_log>>
rd_vars == <<rd_pc, rd_status, rd_code, rd_resp, lv_resp>>
alert_vars == <<al_pc, al_body, al_resp, al_served, sink_log>>
st_vars == <<st_pc, st_avail, st_i, st_status, st_error, st_calls, st_resp>>
ct_vars == <<environ, environ0, ct_pc, ct_i, ct_saved, ct_result>>
vars == <<cfg_vars, mgr_vars, call_vars, app_vars, rd_vars, alert_vars, st_vars, ct_vars>>

----------------------------------------------------------------------------
\* Bounds of the model

\* longest explicit fallback list passed to the constructor
MaxFallbacks == 2
\* poll cycles of the background thread
MaxPolls == 2
\* concurrent GET /health handlers
MaxReaders == 1
\* POST /alert requests handled one after the other
MaxAlerts == 1

----------------------------------------------------------------------------
\* Names and configuration (config.py)

\* Python None where a string is expected; str(None) = "None"
None == "None"

\* Config.get_supported_providers
Supported == {"claude", "openai", "gemini", "ollama"}

\* str.lower() on provider names
Lower(s) == IF s = "Claude" THEN "claude" ELSE s

\* Config.AI_MODEL_NAME
AI_MODEL_NAME == "qwen2:0.5b"

\* mutant: validation accepts every configuration
validate_provider_config_accepts_all(prov, creds) == TRUE

\* Config.validate_provider_config: TRUE = returns True, FALSE = raises ValueError
validate_provider_config(prov, creds) ==
    LET p == Lower(prov) IN
    ~ (p \in Supported /\ p \notin creds)

----------------------------------------------------------------------------
\* ModelFactory (model_factory.py) and provider constructors (models/*.py)

\* message of the ValueError raised by ModelFactory._create_<p>_provider
ConfigError(p) ==
    CASE p = "ollama" -> "OLLAMA_BASE_URL is required for Ollama provider"
      [] p = "claude" -> "ANTHROPIC_API_KEY is required for Claude provider"
      [] p = "openai" -> "OPENAI_API_KEY is required for OpenAI provider"
      [] p = "gemini" -> "GOOGLE_API_KEY is required for Gemini provider"

\* message of the error raised by the provider constructor when its SDK fails
CtorError(p) ==
    CASE p = "claude" -> "anthropic package is required for Claude provider"
      [] p = "openai" -> "openai package is required for OpenAI provider"
      [] p = "gemini" -> "google-generativeai package is required for Gemini provider"

\* outcomes of a provider constructor: OllamaProvider.__init__ only stores
\* strings; the other three call into their SDK and may raise
CtorOutcomes(p) == IF p = "ollama" THEN {"ok"} ELSE {"ok", "raise"}

\* messages analyze_alert raises with
AnalyzeErrors(p) ==
    CASE p = "claude" -> {"Claude authentication failed - check API key"}
      [] p = "openai" -> {"OpenAI authentication failed - check API key"}
      [] p = "gemini" -> {"Gemini returned empty response"}
      [] p = "ollama" -> {"Ollama API request failed"}

\* texts analyze_alert returns
AnalysisTexts == {"analysis"}

\* ModelFactory.create_provider up to the constructor call: the error it
\* raises before constructing anything, or None
create_provider_error(provider_name, creds) ==
    LET p == Lower(provider_name) IN
    IF p \notin Supported THEN "Unsupported provider"
    ELSE IF p \notin creds THEN ConfigError(p)
    ELSE None

\* FallbackManager._get_model_for_provider
default_models(p) ==
    CASE p = "claude" -> "claude-3-haiku-20240307"
      [] p = "openai" -> "gpt-3.5-turbo"
      [] p = "gemini" -> "gemini-2.5-flash"
      [] p = "ollama" -> "qwen2:0.5b"
      [] OTHER -> AI_MODEL_NAME

get_model_for_provider(provider_name, cfg_provider) ==
    IF Lower(provider_name) = Lower(cfg_provider) THEN AI_MODEL_NAME
    ELSE default_models(Lower(provider_name))

----------------------------------------------------------------------------
\* FallbackManager.__init__ and _get_default_fallbacks

fallback_order(current) ==
    CASE current = "claude" -> <<"openai", "gemini", "ollama">>
      [] current = "openai" -> <<"claude", "gemini", "ollama">>
      [] current = "gemini" -> <<"claude", "openai", "ollama">>
      [] current = "ollama" -> <<"claude", "openai", "gemini">>
      [] OTHER -> <<"ollama">>

get_default_fallbacks(cfg_provider) == fallback_order(Lower(cfg_provider))

\* primary_provider or Config.AI_MODEL_PROVIDER
InitPrimary(argp, cfg_provider) == IF argp = None THEN cfg_provider ELSE argp

\* fallback_providers or self._get_default_fallbacks(): None and [] are falsy
InitFallbacks(argf, cfg_provider) ==
    IF argf = <<>> \/ argf[1] = <<>> THEN get_default_fallbacks(cfg_provider)
    ELSE argf[1]

----------------------------------------------------------------------------
\* FallbackManager.analyze_with_fallback

ProvidersToTry(primary, fallbacks) == <<primary>> \o fallbacks

\* mutants of the loop advance: skipping a candidate, retrying a failed one once
NextCandidateSkip(i) == i + 2

NextCandidateRetry(i) ==
    IF \A k \in DOMAIN calls : calls[k].pos # i \/ calls[k].op # "create" THEN i ELSE i + 1

\* the for loop advancing to the next element (continue)
NextCandidate(i) == i + 1

\* mutant: fallback decided by loop position instead of by name
FallbackUsedByPosition(provider_name, primary) == idx > 1

FallbackUsed(provider_name, primary) == provider_name # primary

\* mutant: the success dict names the primary instead of the provider that answered
SuccessOutcomeNamesPrimary(text, provider_name, model_name, primary) ==
    [success |-> TRUE,
     analysis |-> text,
     provider_used |-> primary,
     model_used |-> model_name,
     fallback_used |-> provider_name # primary]

SuccessOutcome(text, provider_name, model_name, primary) ==
    [success |-> TRUE,
     analysis |-> text,
     provider_used |-> provider_name,
     model_used |-> model_name,
     fallback_used |-> FallbackUsed(provider_name, primary)]

\* mutant: the failure dict lists the fallbacks only
FailureOutcomeFallbacksOnly(err, tried) ==
    [success |-> FALSE,
     error |-> <<"All AI providers failed. Last error: ", err>>,
     providers_tried |-> Tail(tried)]

FailureOutcome(err, tried) ==
    [success |-> FALSE,
     error |-> <<"All AI providers failed. Last error: ", err>>,
     providers_tried |-> tried]

Event(op, ok) == [op |-> op, pos |-> idx, name |-> providers_to_try[idx], ok |-> ok]

\* line 43-45
AnalyzeStart ==
    /\ fm_pc = "idle"
    /\ providers_to_try' = ProvidersToTry(primary_provider, fallback_providers)
    /\ last_error' = None
    /\ idx' = 1
    /\ fm_pc' = "create"
    /\ UNCHANGED <<provider, outcome, calls>>
    /\ UNCHANGED <<cfg_vars, mgr_vars, app_vars, rd_vars, alert_vars, st_vars, ct_vars>>

\* line 47-55: next loop element, ModelFactory.create_provider
CreateProvider ==
    /\ fm_pc = "create"
    /\ idx <= Len(providers_to_try)
    /\ LET name == providers_to_try[idx]
           err == create_provider_error(name, credentials)
       IN  IF err # None
           THEN /\ last_error' = err
                /\ idx' = NextCandidate(idx)
                /\ calls' = Append(calls, Event("create", FALSE))
                /\ UNCHANGED <<fm_pc, provider>>
           ELSE \E c \in CtorOutcomes(Lower(name)) :
                IF c = "ok"
                THEN /\ provider' = <<[name |-> Lower(name),
                                       model_name |-> get_model_for_provider(name, AI_MODEL_PROVIDER)]>>
                     /\ fm_pc' = "validate"
                     /\ calls' = Append(calls, Event("create", TRUE))
                     /\ UNCHANGED <<last_error, idx>>
                ELSE /\ last_error' = CtorError(Lower(name))
                     /\ idx' = NextCandidate(idx)
                     /\ calls' = Append(calls, Event("create", FALSE))
                     /\ UNCHANGED <<fm_pc, provider>>
    /\ UNCHANGED <<providers_to_try, outcome>>
    /\ UNCHANGED <<cfg_vars, mgr_vars, app_vars, rd_vars, alert_vars, st_vars, ct_vars>>

\* mutant: the result of validate_credentials is not looked at
ValidateCredentialsIgnored ==
    /\ fm_pc = "validate"
    /\ \E valid \in BOOLEAN :
        /\ calls' = Append(calls, Event("validate", valid))
        /\ fm_pc' = "analyze"
        /\ UNCHANGED idx
    /\ UNCHANGED <<providers_to_try, provider, last_error, outcome>>
    /\ UNCHANGED <<cfg_vars, mgr_vars, app_vars, rd_vars, alert_vars, st_vars, ct_vars>>

\* line 58-62: provider.validate_credentials()
ValidateCredentials ==
    /\ fm_pc = "validate"
    /\ \E valid \in BOOLEAN :
        /\ calls' = Append(calls, Event("validate", valid))
        /\ IF valid
           THEN /\ fm_pc' = "analyze"
                /\ UNCHANGED idx
           ELSE /\ fm_pc' = "create"
                /\ idx' = NextCandidate(idx)
    /\ UNCHANGED <<providers_to_try, provider, last_error, outcome>>
    /\ UNCHANGED <<cfg_vars, mgr_vars, app_vars, rd_vars, alert_vars, st_vars, ct_vars>>

\* line 65-80: provider.analyze_alert(alert_data) and the return or except
AnalyzeAlert ==
    /\ fm_pc = "analyze"
    /\ \/ \E text \in AnalysisTexts :
            /\ outcome' = <<SuccessOutcome(text, providers_to_try[idx],
                                           provider[1].model_name, primary_provider)>>
            /\ calls' = Append(calls, Event("analyze", TRUE))
            /\ fm_pc' = "done"
            /\ UNCHANGED <<idx, last_error>>
       \/ \E e \in AnalyzeErrors(provider[1].name) :
            /\ last_error' = e
            /\ calls' = Append(calls, Event("analyze", FALSE))
            /\ fm_pc' = "create"
            /\ idx' = NextCandidate(idx)
            /\ UNCHANGED outcome
    /\ UNCHANGED <<providers_to_try, provider>>
    /\ UNCHANGED <<cfg_vars, mgr_vars, app_vars, rd_vars, alert_vars, st_vars, ct_vars>>

\* line 82-88: the loop is exhausted
ReturnFailure ==
    /\ fm_pc = "create"
    /\ idx > Len(providers_to_try)
    /\ outcome' = <<FailureOutcome(last_error, providers_to_try)>>
    /\ fm_pc' = "done"
    /\ UNCHANGED <<providers_to_try, idx, provider, last_error, calls>>
    /\ UNCHANGED <<cfg_vars, mgr_vars, app_vars, rd_vars, alert_vars, st_vars, ct_vars>>

----------------------------------------------------------------------------
\* Specification of one FallbackManager and one analyze_with_fallback call,
\* for every configuration and every constructor argument within the bounds

\* values of the AI_MODEL_PROVIDER environment variable
ConfigProviders == Supported \cup {"Claude"}

\* explicit primary_provider arguments
ExplicitPrimaries == {"claude"}

\* names used in explicit fallback lists
FallbackAlphabet == {"claude", "ollama"}

SeqsUpTo(S, n) == UNION {[1..k -> S] : k \in 0..n}

\* threads that run a provider constructor at the same time
Constructors == {"request", "poller"}

\* no POST /alert is being handled
AlertIdle ==
    /\ al_pc = "idle"
    /\ al_body = None
    /\ al_resp = <<>>
    /\ al_served = 0
    /\ sink_log = <<>>

\* no get_provider_status call is running
StatusIdle ==
    /\ st_pc = "idle"
    /\ st_avail = <<>>
    /\ st_i = 0
    /\ st_status = <<>>
    /\ st_error = None
    /\ st_calls = <<>>
    /\ st_resp = <<>>

\* no provider constructor is running
CtorIdle ==
    /\ environ = {}
    /\ environ0 = {}
    /\ ct_pc = [c \in Constructors |-> "off"]
    /\ ct_i = [c \in Constructors |-> 0]
    /\ ct_saved = [c \in Constructors |-> <<>>]
    /\ ct_result = [c \in Constructors |-> <<>>]

AppIdle ==
    /\ main_pc = "off"
    /\ heap = <<>>
    /\ health_state = 0
    /\ poll_pc = "off"
    /\ polls = 0
    /\ now = 0
    /\ poll_log = <<>>
    /\ rd_pc = [r \in 1..MaxReaders |-> "idle"]
    /\ rd_status = [r \in 1..MaxReaders |-> None]
    /\ rd_code = [r \in 1..MaxReaders |-> 0]
    /\ rd_resp = [r \in 1..MaxReaders |-> <<>>]
    /\ lv_resp = <<>>

CallIdle ==
    /\ fm_pc = "idle"
    /\ providers_to_try = <<>>
    /\ idx = 0
    /\ provider = <<>>
    /\ last_error = None
    /\ outcome = <<>>
    /\ calls = <<>>

InitFallback ==
    /\ AI_MODEL_PROVIDER \in ConfigProviders
    /\ credentials \in SUBSET Supported
    /\ arg_primary \in {None} \cup ExplicitPrimaries
    /\ arg_fallbacks \in {<<>>} \cup {<<l>> : l \in SeqsUpTo(FallbackAlphabet, MaxFallbacks)}
    /\ primary_provider = InitPrimary(arg_primary, AI_MODEL_PROVIDER)
    /\ fallback_providers = InitFallbacks(arg_fallbacks, AI_MODEL_PROVIDER)
    /\ CallIdle
    /\ AppIdle
    /\ AlertIdle
    /\ StatusIdle
    /\ CtorIdle

NextFallback ==
    \/ AnalyzeStart
    \/ CreateProvider
    \/ ValidateCredentials
    \/ AnalyzeAlert
    \/ ReturnFailure

SpecFallback == InitFallback /\ [][NextFallback]_vars

\* each provider call returns or times out, and the handler thread keeps running
FairFallback == SpecFallback /\ WF_vars(NextFallback)

----------------------------------------------------------------------------
\* FallbackManager.get_provider_status and ModelFactory.get_available_providers

\* insertion order of the dict built by get_available_providers
ProviderOrder == <<"ollama", "claude", "openai", "gemini">>

\* What the environment does to one backend during one status computation:
\*   "probe_raises"  its constructor raises inside get_available_providers
\*   "create_raises" its constructor raises inside get_provider_status
\*   "invalid" / "valid"  validate_credentials returns False / True
EnvOutcomes(p, creds) ==
    IF p \notin creds THEN {"invalid"}
    ELSE IF CtorOutcomes(p) = {"ok"} THEN {"invalid", "valid"}
    ELSE {"probe_raises", "create_raises", "invalid", "valid"}

Envs(creds) == {e \in [Supported -> {"probe_raises", "create_raises", "invalid", "valid"}] :
                    \A p \in Supported : e[p] \in EnvOutcomes(p, creds)}

\* get_available_providers catches ValueError only: positions in ProviderOrder
\* of the configured backends whose constructor raises something else
ProbeRaisers(creds, env) ==
    {i \in DOMAIN ProviderOrder :
        ProviderOrder[i] \in creds /\ env[ProviderOrder[i]] = "probe_raises"}

Min(S) == CHOOSE x \in S : \A y \in S : x <= y

\* the error get_available_providers propagates, or None when it returns
get_available_providers_error(creds, env) ==
    IF ProbeRaisers(creds, env) = {} THEN None
    ELSE CtorError(ProviderOrder[Min(ProbeRaisers(creds, env))])

\* the mapping get_available_providers returns
get_available_providers(creds) == [p \in Supported |-> p \in creds]

\* mutant: a configured backend is reported ready whatever validation said
StatusEntryAlwaysReady(p, is_available, e, cfg_provider) ==
    IF ~ is_available
    THEN [available |-> FALSE, credentials_valid |-> FALSE, model |-> None, ready |-> FALSE]
    ELSE IF e = "create_raises"
    THEN [available |-> FALSE, credentials_valid |-> FALSE, model |-> None, ready |-> FALSE,
          error |-> CtorError(p)]
    ELSE [available |-> TRUE, credentials_valid |-> (e = "valid"),
          model |-> get_model_for_provider(p, cfg_provider), ready |-> TRUE]

\* one iteration of the loop of get_provider_status (lines 111-140)
StatusEntry(p, is_available, e, cfg_provider) ==
    IF ~ is_available
    THEN [available |-> FALSE, credentials_valid |-> FALSE, model |-> None, ready |-> FALSE]
    ELSE IF e = "create_raises"
    THEN [available |-> FALSE, credentials_valid |-> FALSE, model |-> None, ready |-> FALSE,
          error |-> CtorError(p)]
    ELSE [available |-> TRUE, credentials_valid |-> (e = "valid"),
          model |-> get_model_for_provider(p, cfg_provider), ready |-> (e = "valid")]

\* the dict get_provider_status returns when get_available_providers returned
get_provider_status(creds, env, cfg_provider) ==
    [p \in Supported |-> StatusEntry(p, get_available_providers(creds)[p], env[p], cfg_provider)]

----------------------------------------------------------------------------
\* app.py: health snapshot cache and background poller

\* the empty dict {}
EmptyDict == [p \in {} |-> None]

\* _health_state as built at import (lines 17-26); last_updated 0 stands for None
InitialHealthState(cfg_provider) ==
    [status |-> "unknown",
     current_provider |-> cfg_provider,
     current_model |-> AI_MODEL_NAME,
     ready_providers |-> 0,
     total_providers |-> 0,
     provider_details |-> EmptyDict,
     last_updated |-> 0,
     error |-> None]

\* mutant: keys the poll does not assign are reset instead of carried over
MergeResetsOthers(old, updates) ==
    [k \in DOMAIN old \cup DOMAIN updates |->
        IF k \in DOMAIN updates THEN updates[k] ELSE None]

\* {**old, **updates}
Merge(old, updates) ==
    [k \in DOMAIN old \cup DOMAIN updates |->
        IF k \in DOMAIN updates THEN updates[k] ELSE old[k]]

\* sum(1 for status in provider_status.values() if status.get("ready", False))
ReadyProviders(provider_status) ==
    Cardinality({p \in DOMAIN provider_status : provider_status[p].ready})

\* mutant: a poll that found nothing ready leaves the status at unknown
OverallStatusUnknownIfNoneReady(ready_providers) ==
    IF ready_providers > 0 THEN "healthy" ELSE "unknown"

\* mutant: a poll that found nothing ready still reports healthy
OverallStatusOptimistic(ready_providers) ==
    IF ready_providers >= 0 THEN "healthy" ELSE "degraded"

OverallStatus(ready_providers) ==
    IF ready_providers > 0 THEN "healthy" ELSE "degraded"

\* mutant: ready_providers counts every entry
HealthyFieldsCountsAll(provider_status, t) ==
    [status |-> OverallStatus(Cardinality(DOMAIN provider_status)),
     ready_providers |-> Cardinality(DOMAIN provider_status),
     total_providers |-> Cardinality(DOMAIN provider_status),
     provider_details |-> provider_status,
     last_updated |-> t,
     error |-> None]

\* lines 54-62
HealthyFields(provider_status, t) ==
    [status |-> OverallStatus(ReadyProviders(provider_status)),
     ready_providers |-> ReadyProviders(provider_status),
     total_providers |-> Cardinality(DOMAIN provider_status),
     provider_details |-> provider_status,
     last_updated |-> t,
     error |-> None]

\* mutant: the except branch keeps the counts and details of the last good poll
UnhealthyFieldsStale(err, t) ==
    [status |-> "unhealthy",
     last_updated |-> t,
     error |-> err]

\* lines 64-72
UnhealthyFields(err, t) ==
    [status |-> "unhealthy",
     ready_providers |-> 0,
     total_providers |-> 0,
     provider_details |-> EmptyDict,
     last_updated |-> t,
     error |-> err]

\* mutant: the current dict is updated in place instead of being replaced
PublishInPlace(h, new) == [h EXCEPT ![Len(h)] = new]

\* _health_state = {...}: a new dict is allocated and the global rebound to it
Publish(h, new) == Append(h, new)

\* lines 32-42: Config.validate_provider_config() at import; a ValueError is re-raised
ValidateConfig ==
    /\ main_pc = "validate"
    /\ main_pc' = IF validate_provider_config(AI_MODEL_PROVIDER, credentials)
                  THEN "start_poller" ELSE "failed"
    /\ UNCHANGED <<heap, health_state, poll_pc, polls, now, poll_log>>
    /\ UNCHANGED <<cfg_vars, mgr_vars, call_vars, rd_vars, alert_vars, st_vars, ct_vars>>

\* line 83: threading.Thread(target=health_checker_loop, daemon=True).start()
StartPoller ==
    /\ main_pc = "start_poller"
    /\ main_pc' = "serving"
    /\ poll_pc' = "refresh"
    /\ UNCHANGED <<heap, health_state, polls, now, poll_log>>
    /\ UNCHANGED <<cfg_vars, mgr_vars, call_vars, rd_vars, alert_vars, st_vars, ct_vars>>

\* lines 45-72 and 78: one refresh_provider_status() call of the background thread
RefreshProviderStatus ==
    /\ poll_pc = "refresh"
    /\ polls < MaxPolls
    /\ \E env \in Envs(credentials) :
        LET err == get_available_providers_error(credentials, env)
            provider_status == get_provider_status(credentials, env, AI_MODEL_PROVIDER)
            t == now + 1
            old == heap[health_state]
            new == IF err = None
                   THEN Merge(old, HealthyFields(provider_status, t))
                   ELSE Merge(old, UnhealthyFields(err, t))
        IN  /\ heap' = Publish(heap, new)
            /\ health_state' = Len(heap')
            /\ now' = t
            /\ poll_log' = Append(poll_log,
                                  [raised |-> err # None,
                                   error |-> err,
                                   status |-> IF err = None THEN provider_status ELSE EmptyDict,
                                   time |-> t])
    /\ polls' = polls + 1
    /\ poll_pc' = "sleep"
    /\ UNCHANGED main_pc
    /\ UNCHANGED <<cfg_vars, mgr_vars, call_vars, rd_vars, alert_vars, st_vars, ct_vars>>

\* mutant: the poller starts its next cycle only while no POST /alert is in hand
PollerSleepWaitsForHandlers ==
    /\ al_pc = "idle"
    /\ poll_pc = "sleep"
    /\ poll_pc' = "refresh"
    /\ UNCHANGED <<main_pc, heap, health_state, polls, now, poll_log>>
    /\ UNCHANGED <<cfg_vars, mgr_vars, call_vars, rd_vars, alert_vars, st_vars, ct_vars>>

\* line 79: time.sleep(Config.HEALTH_CHECK_INTERVAL) returns
PollerSleep ==
    /\ poll_pc = "sleep"
    /\ poll_pc' = "refresh"
    /\ UNCHANGED <<main_pc, heap, health_state, polls, now, poll_log>>
    /\ UNCHANGED <<cfg_vars, mgr_vars, call_vars, rd_vars, alert_vars, st_vars, ct_vars>>

----------------------------------------------------------------------------
\* app.py: GET /health

Readers == 1..MaxReaders

StatusCode(status) == IF status = "unhealthy" THEN 503 ELSE 200

\* lines 210-211: status = _health_state["status"]; status_code = ...
HealthReadStatus(r) ==
    /\ main_pc = "serving"
    /\ rd_pc[r] = "idle"
    /\ rd_status' = [rd_status EXCEPT ![r] = heap[health_state].status]
    /\ rd_code' = [rd_code EXCEPT ![r] = StatusCode(heap[health_state].status)]
    /\ rd_resp' = [rd_resp EXCEPT ![r] = <<>>]
    /\ rd_pc' = [rd_pc EXCEPT ![r] = "respond"]
    /\ UNCHANGED lv_resp
    /\ UNCHANGED <<cfg_vars, mgr_vars, call_vars, app_vars, alert_vars, st_vars, ct_vars>>

\* line 213: return jsonify(_health_state), status_code
HealthRespond(r) ==
    /\ rd_pc[r] = "respond"
    /\ rd_resp' = [rd_resp EXCEPT ![r] = <<[code |-> rd_code[r], body |-> heap[health_state]]>>]
    /\ rd_pc' = [rd_pc EXCEPT ![r] = "idle"]
    /\ UNCHANGED <<rd_status, rd_code, lv_resp>>
    /\ UNCHANGED <<cfg_vars, mgr_vars, call_vars, app_vars, alert_vars, st_vars, ct_vars>>

----------------------------------------------------------------------------
\* Specification of the running service: start-up, the background poller and
\* GET /health handlers, with the module-level FallbackManager()

\* values of AI_MODEL_PROVIDER the service is started with
AppProviders == {"ollama", "claude", "bogus"}

\* backends that may have their credential or base URL set
AppCredentialed == {"ollama", "claude"}

Init ==
    /\ AI_MODEL_PROVIDER \in AppProviders
    /\ credentials \in SUBSET AppCredentialed
    /\ arg_primary = None
    /\ arg_fallbacks = <<>>
    /\ primary_provider = InitPrimary(arg_primary, AI_MODEL_PROVIDER)
    /\ fallback_providers = InitFallbacks(arg_fallbacks, AI_MODEL_PROVIDER)
    /\ CallIdle
    /\ main_pc = "validate"
    /\ heap = <<InitialHealthState(AI_MODEL_PROVIDER)>>
    /\ health_state = 1
    /\ poll_pc = "off"
    /\ polls = 0
    /\ now = 0
    /\ poll_log = <<>>
    /\ rd_pc = [r \in Readers |-> "idle"]
    /\ rd_status = [r \in Readers |-> None]
    /\ rd_code = [r \in Readers |-> 0]
    /\ rd_resp = [r \in Readers |-> <<>>]
    /\ lv_resp = <<>>
    /\ AlertIdle
    /\ StatusIdle
    /\ CtorIdle

Next ==
    \/ ValidateConfig
    \/ StartPoller
    \/ RefreshProviderStatus
    \/ PollerSleep
    \/ \E r \in Readers : HealthReadStatus(r)
    \/ \E r \in Readers : HealthRespond(r)

Spec == Init /\ [][Next]_vars

----------------------------------------------------------------------------
\* app.py: POST /alert (lines 86-204)

\* request bodies: a JSON object, the JSON text null, a body that does not
\* parse as JSON, a body sent with a content type other than JSON
BodyKinds == {"object", "null", "malformed", "not_json_type"}

\* request.get_json() (flask): a dict, None, or a raised HTTPException.
\* Parsing failure ends in on_json_loading_failed, which raises BadRequest; a
\* non-JSON content type gives None or raises, depending on the flask version.
GetJsonOutcomes(body) ==
    CASE body = "object" -> {"dict"}
      [] body = "null" -> {"none"}
      [] body = "malformed" -> {"raise"}
      [] body = "not_json_type" -> {"none", "raise"}

\* str(e) of the exception get_json raises
BadRequestMessage == <<"400 Bad Request: Failed to decode JSON object">>

\* lines 92-98
InvalidJsonResponse ==
    [code |-> 400,
     json |-> [status |-> "error", message |-> <<"Request body must be valid JSON">>]]

\* lines 202-204: except Exception as e
ExceptionResponse(msg) ==
    [code |-> 500, json |-> [status |-> "error", message |-> msg]]

\* mutant: the failure response without the list of providers tried
FailureResponseNoList(result) ==
    [code |-> 500,
     json |-> [status |-> "error", message |-> result.error]]

\* lines 110-121
FailureResponse(result) ==
    [code |-> 500,
     json |-> [status |-> "error",
               message |-> result.error,
               providers_tried |-> result.providers_tried]]

\* mutant: the marker is always written
FallbackIndicatorAlways(fallback_used) == " (FALLBACK)"

\* line 139
FallbackIndicator(fallback_used) == IF fallback_used THEN " (FALLBACK)" ELSE ""

\* lines 140-146: the f-string, kept as the sequence of its parts
DiscordMessage(provider_used, fallback_used, analysis_content) ==
    [content |-> <<"**Alert Analysis** (", provider_used, FallbackIndicator(fallback_used),
                   "):\n", analysis_content, "\n",
                   "** Please check your application to reduce the logs**">>]

\* what the webhook call does: status 204, another status, or a
\* requests.exceptions.RequestException
SinkAnswers == {"204", "other_status", "transport_error"}

\* lines 188-200
SuccessResponse(result) ==
    [code |-> 200,
     json |-> [status |-> "success",
               message |-> <<"Alert received and processed">>,
               provider |-> result.provider_used,
               fallback_used |-> result.fallback_used,
               model |-> result.model_used]]

\* mutant: the webhook's status code is not looked at
NotifyResponseIgnoresStatus(answer, result) ==
    IF answer = "transport_error"
    THEN [code |-> 500,
          json |-> [status |-> "error",
                    message |-> <<"Failed to send Discord notification: ", "connection error">>]]
    ELSE SuccessResponse(result)

\* lines 157-200: the response after requests.post returned or raised
NotifyResponse(answer, result) ==
    IF answer = "other_status"
    THEN [code |-> 500,
          json |-> [status |-> "error", message |-> <<"Failed to send message to Discord">>]]
    ELSE IF answer = "transport_error"
    THEN [code |-> 500,
          json |-> [status |-> "error",
                    message |-> <<"Failed to send Discord notification: ", "connection error">>]]
    ELSE SuccessResponse(result)

\* lines 88-108: a request arrives; get_json, the None check, and either an
\* early response or the call of analyze_with_fallback
AlertReceive ==
    /\ main_pc = "serving"
    /\ al_pc = "idle"
    /\ al_served < MaxAlerts
    /\ \E body \in BodyKinds : \E j \in GetJsonOutcomes(body) :
        /\ al_body' = body
        /\ sink_log' = <<>>
        /\ providers_to_try' = <<>>
        /\ idx' = 0
        /\ provider' = <<>>
        /\ last_error' = None
        /\ outcome' = <<>>
        /\ calls' = <<>>
        /\ IF j = "dict"
           THEN /\ al_pc' = "analyzing"
                /\ fm_pc' = "idle"
                /\ al_resp' = <<>>
                /\ UNCHANGED al_served
           ELSE /\ al_pc' = "idle"
                /\ fm_pc' = "none"
                /\ al_resp' = IF j = "none" THEN <<InvalidJsonResponse>>
                              ELSE <<ExceptionResponse(BadRequestMessage)>>
                /\ al_served' = al_served + 1
    /\ UNCHANGED <<cfg_vars, mgr_vars, app_vars, rd_vars, st_vars, ct_vars>>

\* lines 110-146: analyze_with_fallback returned
AlertAfterAnalysis ==
    /\ al_pc = "analyzing"
    /\ fm_pc = "done"
    /\ IF outcome[1].success
       THEN /\ al_pc' = "notify"
            /\ UNCHANGED <<al_resp, al_served>>
       ELSE /\ al_pc' = "idle"
            /\ al_resp' = <<FailureResponse(outcome[1])>>
            /\ al_served' = al_served + 1
    /\ UNCHANGED <<al_body, sink_log>>
    /\ UNCHANGED <<cfg_vars, mgr_vars, call_vars, app_vars, rd_vars, st_vars, ct_vars>>

\* lines 148-200: requests.post to the webhook and the response
AlertNotify ==
    /\ al_pc = "notify"
    /\ \E answer \in SinkAnswers :
        /\ sink_log' = Append(sink_log,
                              [payload |-> DiscordMessage(outcome[1].provider_used,
                                                          outcome[1].fallback_used,
                                                          outcome[1].analysis),
                               answer |-> answer,
                               calls_before |-> Len(calls)])
        /\ al_resp' = <<NotifyResponse(answer, outcome[1])>>
    /\ al_pc' = "idle"
    /\ al_served' = al_served + 1
    /\ UNCHANGED al_body
    /\ UNCHANGED <<cfg_vars, mgr_vars, call_vars, app_vars, rd_vars, st_vars, ct_vars>>

----------------------------------------------------------------------------
\* Specification of the running service handling POST /alert requests with the
\* module-level FallbackManager(), for every configuration that starts up

\* values of AI_MODEL_PROVIDER the service is started with
AlertProviders == Supported \cup {"Claude", "bogus"}

\* no analyze_with_fallback call has been made
CallNone ==
    /\ fm_pc = "none"
    /\ providers_to_try = <<>>
    /\ idx = 0
    /\ provider = <<>>
    /\ last_error = None
    /\ outcome = <<>>
    /\ calls = <<>>

InitAlert ==
    /\ AI_MODEL_PROVIDER \in AlertProviders
    /\ credentials \in SUBSET Supported
    /\ validate_provider_config(AI_MODEL_PROVIDER, credentials)
    /\ arg_primary = None
    /\ arg_fallbacks = <<>>
    /\ primary_provider = InitPrimary(arg_primary, AI_MODEL_PROVIDER)
    /\ fallback_providers = InitFallbacks(arg_fallbacks, AI_MODEL_PROVIDER)
    /\ CallNone
    /\ main_pc = "serving"
    /\ heap = <<InitialHealthState(AI_MODEL_PROVIDER)>>
    /\ health_state = 1
    /\ poll_pc = "refresh"
    /\ polls = 0
    /\ now = 0
    /\ poll_log = <<>>
    /\ rd_pc = [r \in Readers |-> "idle"]
    /\ rd_status = [r \in Readers |-> None]
    /\ rd_code = [r \in Readers |-> 0]
    /\ rd_resp = [r \in Readers |-> <<>>]
    /\ lv_resp = <<>>
    /\ AlertIdle
    /\ StatusIdle
    /\ CtorIdle

NextAlert ==
    \/ AlertReceive
    \/ AnalyzeStart
    \/ CreateProvider
    \/ ValidateCredentials
    \/ AnalyzeAlert
    \/ ReturnFailure
    \/ AlertAfterAnalysis
    \/ AlertNotify

SpecAlert == InitAlert /\ [][NextAlert]_vars

----------------------------------------------------------------------------
\* app.py: GET /status (lines 221-243), with get_provider_status step by step

\* get_available_providers constructed backend p (its configuration is present)
ProbeCalled(p, creds) == p \in creds

\* the constructor calls get_available_providers makes, in order, up to and
\* including the first that raises
ProbeCalls(creds, env) ==
    LET last == IF ProbeRaisers(creds, env) = {} THEN Len(ProviderOrder)
                ELSE Min(ProbeRaisers(creds, env))
        Made(p) == ProbeCalled(p, creds)
    IN  [i \in DOMAIN SelectSeq(SubSeq(ProviderOrder, 1, last), Made) |->
            [op |-> "probe", name |-> SelectSeq(SubSeq(ProviderOrder, 1, last), Made)[i]]]

\* line 113-117: create_provider is called for this entry
CreateCalled(p, is_available) == is_available

\* mutant: every backend gets the live check
ValidateCalledAlways(p, is_available, e) == TRUE

\* line 118: validate_credentials is called for this entry
ValidateCalled(p, is_available, e) == is_available /\ e # "create_raises"

\* the calls one loop iteration makes
EntryCalls(p, is_available, e) ==
    (IF CreateCalled(p, is_available) THEN <<[op |-> "create", name |-> p]>> ELSE <<>>)
    \o (IF ValidateCalled(p, is_available, e) THEN <<[op |-> "validate", name |-> p]>> ELSE <<>>)

\* lines 229-241
StatusOkResponse(provider_status, cfg_provider) ==
    [code |-> 200,
     json |-> [status |-> OverallStatus(ReadyProviders(provider_status)),
               current_provider |-> cfg_provider,
               current_model |-> AI_MODEL_NAME,
               ready_providers |-> ReadyProviders(provider_status),
               total_providers |-> Cardinality(DOMAIN provider_status),
               provider_details |-> provider_status]]

\* line 243: return jsonify({"status": "unhealthy", "error": str(e)}), 50
StatusErrorResponse(err) ==
    [code |-> 50, json |-> [status |-> "unhealthy", error |-> err]]

\* lines 223-225 and fallback_manager.py 108-109: the handler calls
\* get_provider_status, which calls ModelFactory.get_available_providers
StatusAvailable ==
    /\ main_pc = "serving"
    /\ st_pc = "idle"
    /\ \E env \in Envs(credentials) :
        LET err == get_available_providers_error(credentials, env) IN
        /\ st_calls' = ProbeCalls(credentials, env)
        /\ st_error' = err
        /\ IF err = None
           THEN /\ st_avail' = get_available_providers(credentials)
                /\ st_pc' = "loop"
                /\ st_i' = 1
           ELSE /\ st_pc' = "respond"
                /\ UNCHANGED <<st_avail, st_i>>
    /\ st_status' = EmptyDict
    /\ UNCHANGED st_resp
    /\ UNCHANGED <<cfg_vars, mgr_vars, call_vars, app_vars, rd_vars, alert_vars, ct_vars>>

\* fallback_manager.py 111-140: one iteration of the loop
StatusIterate ==
    /\ st_pc = "loop"
    /\ st_i <= Len(ProviderOrder)
    /\ LET p == ProviderOrder[st_i] IN
       \E e \in EnvOutcomes(p, credentials) \ {"probe_raises"} :
        /\ st_status' = [q \in DOMAIN st_status \cup {p} |->
                            IF q = p
                            THEN StatusEntry(p, st_avail[p], e, AI_MODEL_PROVIDER)
                            ELSE st_status[q]]
        /\ st_calls' = st_calls \o EntryCalls(p, st_avail[p], e)
    /\ st_i' = st_i + 1
    /\ UNCHANGED <<st_pc, st_avail, st_error, st_resp>>
    /\ UNCHANGED <<cfg_vars, mgr_vars, call_vars, app_vars, rd_vars, alert_vars, ct_vars>>

\* fallback_manager.py 142: return status
StatusReturn ==
    /\ st_pc = "loop"
    /\ st_i > Len(ProviderOrder)
    /\ st_pc' = "respond"
    /\ UNCHANGED <<st_avail, st_i, st_status, st_error, st_calls, st_resp>>
    /\ UNCHANGED <<cfg_vars, mgr_vars, call_vars, app_vars, rd_vars, alert_vars, ct_vars>>

\* app.py 226-243: the response
StatusRespond ==
    /\ st_pc = "respond"
    /\ st_resp' = IF st_error = None
                  THEN <<StatusOkResponse(st_status, AI_MODEL_PROVIDER)>>
                  ELSE <<StatusErrorResponse(st_error)>>
    /\ st_pc' = "done"
    /\ UNCHANGED <<st_avail, st_i, st_status, st_error, st_calls>>
    /\ UNCHANGED <<cfg_vars, mgr_vars, call_vars, app_vars, rd_vars, alert_vars, ct_vars>>

\* Specification of the running service handling one GET /status request, for
\* every configuration that starts up
InitStatus == InitAlert

NextStatus ==
    \/ StatusAvailable
    \/ StatusIterate
    \/ StatusReturn
    \/ StatusRespond

SpecStatus == InitStatus /\ [][NextStatus]_vars

----------------------------------------------------------------------------
\* models/openai.py, models/claude.py: __init__ (lines 28-50), run by
\* concurrent threads over the one os.environ of the process

\* proxy_vars
proxy_vars == <<"HTTP_PROXY", "HTTPS_PROXY", "http_proxy", "https_proxy", "NO_PROXY", "no_proxy">>

\* the proxy variables a deployment sets before the process starts
DeployedProxyVars == {"HTTP_PROXY", "NO_PROXY"}

\* self.client was built; environ_seen is what os.environ held at that moment
Instance(env) == [kind |-> "instance", key |-> None, environ_seen |-> env]

\* os.environ[var] or del os.environ[var] on a key that is gone
KeyErrorOf(var) == [kind |-> "KeyError", key |-> var, environ_seen |-> {}]

\* position after the loop body for proxy_vars[i] finished
AfterVar(i) == IF i < Len(proxy_vars) THEN "check" ELSE "construct"

\* position after the client was built
AfterConstruct(saved) == IF saved = <<>> THEN "done" ELSE "restore"

\* a thread enters the constructor: original_env = {}
CtorBegin(c) ==
    /\ ct_pc[c] = "off"
    /\ ct_pc' = [ct_pc EXCEPT ![c] = "check"]
    /\ ct_i' = [ct_i EXCEPT ![c] = 1]
    /\ ct_saved' = [ct_saved EXCEPT ![c] = <<>>]
    /\ UNCHANGED <<environ, environ0, ct_result>>
    /\ UNCHANGED <<cfg_vars, mgr_vars, call_vars, app_vars, rd_vars, alert_vars, st_vars>>

\* line 41: if var in os.environ
CtorCheck(c) ==
    /\ ct_pc[c] = "check"
    /\ IF proxy_vars[ct_i[c]] \in environ
       THEN /\ ct_pc' = [ct_pc EXCEPT ![c] = "read"]
            /\ UNCHANGED ct_i
       ELSE /\ ct_pc' = [ct_pc EXCEPT ![c] = AfterVar(ct_i[c])]
            /\ ct_i' = [ct_i EXCEPT ![c] = ct_i[c] + 1]
    /\ UNCHANGED <<environ, environ0, ct_saved, ct_result>>
    /\ UNCHANGED <<cfg_vars, mgr_vars, call_vars, app_vars, rd_vars, alert_vars, st_vars>>

\* line 42: original_env[var] = os.environ[var]
CtorRead(c) ==
    /\ ct_pc[c] = "read"
    /\ IF proxy_vars[ct_i[c]] \in environ
       THEN /\ ct_saved' = [ct_saved EXCEPT ![c] = Append(ct_saved[c], proxy_vars[ct_i[c]])]
            /\ ct_pc' = [ct_pc EXCEPT ![c] = "del"]
            /\ UNCHANGED ct_result
       ELSE /\ ct_result' = [ct_result EXCEPT ![c] = <<KeyErrorOf(proxy_vars[ct_i[c]])>>]
            /\ ct_pc' = [ct_pc EXCEPT ![c] = "done"]
            /\ UNCHANGED ct_saved
    /\ UNCHANGED <<environ, environ0, ct_i>>
    /\ UNCHANGED <<cfg_vars, mgr_vars, call_vars, app_vars, rd_vars, alert_vars, st_vars>>

\* line 43: del os.environ[var]
CtorDel(c) ==
    /\ ct_pc[c] = "del"
    /\ IF proxy_vars[ct_i[c]] \in environ
       THEN /\ environ' = environ \ {proxy_vars[ct_i[c]]}
            /\ ct_pc' = [ct_pc EXCEPT ![c] = AfterVar(ct_i[c])]
            /\ ct_i' = [ct_i EXCEPT ![c] = ct_i[c] + 1]
            /\ UNCHANGED ct_result
       ELSE /\ ct_result' = [ct_result EXCEPT ![c] = <<KeyErrorOf(proxy_vars[ct_i[c]])>>]
            /\ ct_pc' = [ct_pc EXCEPT ![c] = "done"]
            /\ UNCHANGED <<environ, ct_i>>
    /\ UNCHANGED <<environ0, ct_saved>>
    /\ UNCHANGED <<cfg_vars, mgr_vars, call_vars, app_vars, rd_vars, alert_vars, st_vars>>

\* lines 45-46: self.client = openai.OpenAI(api_key=api_key)
CtorConstruct(c) ==
    /\ ct_pc[c] = "construct"
    /\ ct_result' = [ct_result EXCEPT ![c] = <<Instance(environ)>>]
    /\ ct_pc' = [ct_pc EXCEPT ![c] = AfterConstruct(ct_saved[c])]
    /\ ct_i' = [ct_i EXCEPT ![c] = 1]
    /\ UNCHANGED <<environ, environ0, ct_saved>>
    /\ UNCHANGED <<cfg_vars, mgr_vars, call_vars, app_vars, rd_vars, alert_vars, st_vars>>

\* lines 47-50: finally: os.environ[var] = value, one key per step
CtorRestore(c) ==
    /\ ct_pc[c] = "restore"
    /\ environ' = environ \cup {ct_saved[c][ct_i[c]]}
    /\ ct_i' = [ct_i EXCEPT ![c] = ct_i[c] + 1]
    /\ ct_pc' = [ct_pc EXCEPT ![c] = IF ct_i[c] < Len(ct_saved[c]) THEN "restore" ELSE "done"]
    /\ UNCHANGED <<environ0, ct_saved, ct_result>>
    /\ UNCHANGED <<cfg_vars, mgr_vars, call_vars, app_vars, rd_vars, alert_vars, st_vars>>

\* Specification of two concurrent constructions of an OpenAI provider (one by
\* a request handler, one by the poller) in a running service
InitCtor ==
    /\ AI_MODEL_PROVIDER = "openai"
    /\ credentials = {"openai"}
    /\ arg_primary = None
    /\ arg_fallbacks = <<>>
    /\ primary_provider = InitPrimary(arg_primary, AI_MODEL_PROVIDER)
    /\ fallback_providers = InitFallbacks(arg_fallbacks, AI_MODEL_PROVIDER)
    /\ CallNone
    /\ main_pc = "serving"
    /\ heap = <<InitialHealthState(AI_MODEL_PROVIDER)>>
    /\ health_state = 1
    /\ poll_pc = "refresh"
    /\ polls = 0
    /\ now = 0
    /\ poll_log = <<>>
    /\ rd_pc = [r \in Readers |-> "idle"]
    /\ rd_status = [r \in Readers |-> None]
    /\ rd_code = [r \in Readers |-> 0]
    /\ rd_resp = [r \in Readers |-> <<>>]
    /\ lv_resp = <<>>
    /\ AlertIdle
    /\ StatusIdle
    /\ environ \in SUBSET DeployedProxyVars
    /\ environ0 = environ
    /\ ct_pc = [c \in Constructors |-> "off"]
    /\ ct_i = [c \in Constructors |-> 0]
    /\ ct_saved = [c \in Constructors |-> <<>>]
    /\ ct_result = [c \in Constructors |-> <<>>]

NextCtor ==
    \E c \in Constructors :
        \/ CtorBegin(c)
        \/ CtorCheck(c)
        \/ CtorRead(c)
        \/ CtorDel(c)
        \/ CtorConstruct(c)
        \/ CtorRestore(c)

SpecCtor == InitCtor /\ [][NextCtor]_vars

----------------------------------------------------------------------------
\* The running service while one POST /alert handler is inside a provider
\* call that never returns: the poller thread (app.py 75-83) and the handler
\* threads of GET /health and GET /status, each thread a separate control state
\* over the shared module globals

\* values of AI_MODEL_PROVIDER and credentials the service is run with
LiveProviders == {"ollama"}
LiveCredentialed == {{"ollama"}}

\* the GET /health handler thread that runs next to the stuck handler
LiveReader == CHOOSE r \in Readers : TRUE

\* a POST /alert handler is inside provider.analyze_alert of the primary
\* (fallback_manager.py line 65), after create_provider and validate_credentials
InAnalyzeCall ==
    /\ al_pc = "analyzing"
    /\ al_body = "object"
    /\ al_resp = <<>>
    /\ al_served = 0
    /\ sink_log = <<>>
    /\ fm_pc = "analyze"
    /\ providers_to_try = ProvidersToTry(primary_provider, fallback_providers)
    /\ idx = 1
    /\ provider = <<[name |-> Lower(primary_provider),
                     model_name |-> get_model_for_provider(primary_provider, AI_MODEL_PROVIDER)]>>
    /\ last_error = None
    /\ outcome = <<>>
    /\ calls = <<[op |-> "create", pos |-> 1, name |-> primary_provider, ok |-> TRUE],
                 [op |-> "validate", pos |-> 1, name |-> primary_provider, ok |-> TRUE]>>

InitLive ==
    /\ AI_MODEL_PROVIDER \in LiveProviders
    /\ credentials \in LiveCredentialed
    /\ validate_provider_config(AI_MODEL_PROVIDER, credentials)
    /\ arg_primary = None
    /\ arg_fallbacks = <<>>
    /\ primary_provider = InitPrimary(arg_primary, AI_MODEL_PROVIDER)
    /\ fallback_providers = InitFallbacks(arg_fallbacks, AI_MODEL_PROVIDER)
    /\ InAnalyzeCall
    /\ main_pc = "serving"
    /\ heap = <<InitialHealthState(AI_MODEL_PROVIDER)>>
    /\ health_state = 1
    /\ poll_pc = "refresh"
    /\ polls = 0
    /\ now = 0
    /\ poll_log = <<>>
    /\ rd_pc = [r \in Readers |-> "idle"]
    /\ rd_status = [r \in Readers |-> None]
    /\ rd_code = [r \in Readers |-> 0]
    /\ rd_resp = [r \in Readers |-> <<>>]
    /\ lv_resp = <<>>
    /\ StatusIdle
    /\ CtorIdle

\* the steps of a GET /status handler after its first call
StatusSteps ==
    \/ StatusIterate
    \/ StatusReturn
    \/ StatusRespond

\* analyze_alert never returns: no step of the POST /alert handler is taken
NextLive ==
    \/ RefreshProviderStatus
    \/ PollerSleep
    \/ HealthReadStatus(LiveReader)
    \/ HealthRespond(LiveReader)
    \/ StatusAvailable
    \/ StatusSteps

\* The poller thread and the handler threads that are running get scheduled
FairLive ==
    /\ InitLive
    /\ [][NextLive]_vars
    /\ WF_vars(RefreshProviderStatus)
    /\ WF_vars(PollerSleep)
    /\ WF_vars(HealthRespond(LiveReader))
    /\ WF_vars(StatusSteps)

----------------------------------------------------------------------------
\* The running service with every route: the poller thread and handler
\* threads of GET /health, GET /status, GET /live and POST /alert

\* lines 216-218: return {"status": "up"}
LiveResponse == [code |-> 200, json |-> [status |-> "up"]]

\* app.py: GET /live
Live ==
    /\ main_pc = "serving"
    /\ lv_resp' = <<LiveResponse>>
    /\ UNCHANGED <<rd_pc, rd_status, rd_code, rd_resp>>
    /\ UNCHANGED <<cfg_vars, mgr_vars, call_vars, app_vars, alert_vars, st_vars, ct_vars>>

InitService ==
    /\ AI_MODEL_PROVIDER \in LiveProviders
    /\ credentials \in LiveCredentialed
    /\ validate_provider_config(AI_MODEL_PROVIDER, credentials)
    /\ arg_primary = None
    /\ arg_fallbacks = <<>>
    /\ primary_provider = InitPrimary(arg_primary, AI_MODEL_PROVIDER)
    /\ fallback_providers = InitFallbacks(arg_fallbacks, AI_MODEL_PROVIDER)
    /\ CallNone
    /\ main_pc = "serving"
    /\ heap = <<InitialHealthState(AI_MODEL_PROVIDER)>>
    /\ health_state = 1
    /\ poll_pc = "refresh"
    /\ polls = 0
    /\ now = 0
    /\ poll_log = <<>>
    /\ rd_pc = [r \in Readers |-> "idle"]
    /\ rd_status = [r \in Readers |-> None]
    /\ rd_code = [r \in Readers |-> 0]
    /\ rd_resp = [r \in Readers |-> <<>>]
    /\ lv_resp = <<>>
    /\ AlertIdle
    /\ StatusIdle
    /\ CtorIdle

\* the steps of a POST /alert handler
AlertSteps ==
    \/ AlertReceive
    \/ AnalyzeStart
    \/ CreateProvider
    \/ ValidateCredentials
    \/ AnalyzeAlert
    \/ ReturnFailure
    \/ AlertAfterAnalysis
    \/ AlertNotify

NextService ==
    \/ RefreshProviderStatus
    \/ PollerSleep
    \/ HealthReadStatus(LiveReader)
    \/ HealthRespond(LiveReader)
    \/ StatusAvailable
    \/ StatusSteps
    \/ Live
    \/ AlertSteps

SpecService == InitService /\ [][NextService]_vars

----------------------------------------------------------------------------
\* Start-up and the poller under fair scheduling, next to one GET /health
\* handler thread

NextStart ==
    \/ ValidateConfig
    \/ StartPoller
    \/ RefreshProviderStatus
    \/ PollerSleep
    \/ HealthReadStatus(LiveReader)
    \/ HealthRespond(LiveReader)

\* The main thread runs the module to its end and the poller thread is
\* scheduled; requests arrive or not
FairStart ==
    /\ Init
    /\ [][NextStart]_vars
    /\ WF_vars(ValidateConfig)
    /\ WF_vars(StartPoller)
    /\ WF_vars(RefreshProviderStatus)
    /\ WF_vars(PollerSleep)

----------------------------------------------------------------------------
\* Properties of analyze_with_fallback

Positions == 1..Len(providers_to_try)

Returned == outcome # <<>>

Succeeded == Returned /\ outcome[1].success

Exhausted == Returned /\ ~ outcome[1].success

\* position p was attempted and the attempt failed at some stage
FailedAt(p) == \E i \in DOMAIN calls : calls[i].pos = p /\ ~ calls[i].ok

\* position p was attempted and its analyze_alert returned
SucceededAt(p) ==
    \E i \in DOMAIN calls : calls[i].pos = p /\ calls[i].op = "analyze" /\ calls[i].ok

\* number of operations op performed on position p
Count(op, p) == Cardinality({i \in DOMAIN calls : calls[i].op = op /\ calls[i].pos = p})

\* last position an operation was performed on (0 when none)
LastTried == IF calls = <<>> THEN 0 ELSE calls[Len(calls)].pos

StageAfter(op) == IF op = "create" THEN "validate" ELSE "analyze"

\* C1: candidates are attempted strictly in the order [primary] + fallbacks,
\* one at a time; the call returns at the first candidate whose instantiation,
\* validate_credentials and analyze all succeed, provider_used is that
\* candidate, and nothing is done on any later candidate.
C1_InOrderFirstSuccess ==
    fm_pc # "idle" =>
        /\ providers_to_try = <<primary_provider>> \o fallback_providers
        /\ \A i \in DOMAIN calls :
            /\ calls[i].pos \in Positions
            /\ calls[i].name = providers_to_try[calls[i].pos]
        /\ calls # <<>> => calls[1].pos = 1 /\ calls[1].op = "create"
        /\ \A i \in 1..(Len(calls) - 1) :
            IF calls[i].ok
            THEN /\ calls[i].op # "analyze"
                 /\ calls[i + 1].pos = calls[i].pos
                 /\ calls[i + 1].op = StageAfter(calls[i].op)
            ELSE /\ calls[i + 1].pos = calls[i].pos + 1
                 /\ calls[i + 1].op = "create"
        /\ \A i \in DOMAIN calls :
            (calls[i].op = "analyze" /\ calls[i].ok) =>
                /\ i = Len(calls)
                /\ Succeeded
                /\ outcome[1].provider_used = providers_to_try[calls[i].pos]
        /\ Succeeded => SucceededAt(LastTried)

\* C1 witness: the primary failed, the first fallback answered, and at least
\* one later candidate was left untouched
C1_Witness ==
    /\ Succeeded
    /\ LastTried = 2
    /\ Len(providers_to_try) >= 3
    /\ outcome[1].provider_used = providers_to_try[2]

\* C2: success = false iff every candidate failed; then providers_tried is the
\* whole candidate sequence, in order.
C2_FailureIffAllFailed ==
    Returned =>
        /\ (~ outcome[1].success) <=>
              (/\ \A p \in Positions : FailedAt(p)
               /\ \A p \in Positions : ~ SucceededAt(p))
        /\ (~ outcome[1].success) =>
              /\ outcome[1].providers_tried = <<primary_provider>> \o fallback_providers
              /\ Len(outcome[1].providers_tried) = 1 + Len(fallback_providers)

\* C2 witness: a four-candidate sequence exhausted
C2_Witness ==
    /\ Exhausted
    /\ Len(providers_to_try) = 4
    /\ \A p \in Positions : FailedAt(p)

\* C3 as stated: every outcome carries the ordered list of the backends tried,
\* on success the prefix up to and including the succeeding candidate.
C3_EveryOutcomeListsTried ==
    Returned =>
        /\ "providers_tried" \in DOMAIN outcome[1]
        /\ outcome[1].providers_tried = SubSeq(providers_to_try, 1, LastTried)

\* C3 amended: a failure outcome carries the ordered list of the candidates,
\* all of which were tried; a success outcome carries no such list, only
\* provider_used, the last candidate that was tried.
C3_FailureListsTried ==
    Returned =>
        IF outcome[1].success
        THEN /\ "providers_tried" \notin DOMAIN outcome[1]
             /\ LastTried \in Positions
             /\ outcome[1].provider_used = providers_to_try[LastTried]
        ELSE /\ LastTried = Len(providers_to_try)
             /\ outcome[1].providers_tried = SubSeq(providers_to_try, 1, LastTried)

\* C3 witness: success on a fallback after the primary failed
C3_Witness ==
    /\ Succeeded
    /\ LastTried = 3
    /\ FailedAt(1) /\ FailedAt(2)

\* C4: on success, fallback_used is true exactly when the succeeding candidate
\* is not the primary (by name), also when the primary's name occurs again
\* among the fallbacks.
C4_FallbackUsedIffNotPrimary ==
    Succeeded =>
        /\ SucceededAt(LastTried)
        /\ outcome[1].fallback_used = (providers_to_try[LastTried] # providers_to_try[1])
        /\ outcome[1].fallback_used = (outcome[1].provider_used # primary_provider)

\* C4 witness: the primary failed and its name, listed again as a fallback,
\* answered at a later position
C4_Witness ==
    /\ Succeeded
    /\ LastTried > 1
    /\ FailedAt(1)
    /\ providers_to_try[LastTried] = primary_provider
    /\ ~ outcome[1].fallback_used

\* C5: each position is attempted at most once, so at most len(candidates)
\* analyze calls are made, and the call returns whenever every provider call
\* returns.
C5_NoRetryAndReturns ==
    /\ [](/\ \A p \in Positions :
                /\ Count("create", p) <= 1
                /\ Count("validate", p) <= 1
                /\ Count("analyze", p) <= 1
          /\ Cardinality({i \in DOMAIN calls : calls[i].op = "analyze"})
                <= Len(providers_to_try))
    /\ <>(fm_pc = "done")

\* C5 witness: every one of four candidates raised in analyze and the call returned
C5_Witness ==
    /\ fm_pc = "done"
    /\ Len(providers_to_try) = 4
    /\ \A p \in Positions : Count("analyze", p) = 1

----------------------------------------------------------------------------
\* Properties of the health snapshot cache and GET /health

\* the dict the global _health_state refers to
Snapshot == heap[health_state]

\* every Provider Status Entry computed so far: in the snapshots and in what
\* get_provider_status returned to the poller
Entries ==
    UNION {{heap[i].provider_details[p] : p \in DOMAIN heap[i].provider_details} :
              i \in DOMAIN heap}
    \cup UNION {{poll_log[k].status[p] : p \in DOMAIN poll_log[k].status} :
              k \in DOMAIN poll_log}

\* C6: in every Provider Status Entry of every health snapshot, ready = true
\* implies available = true and credentials_valid = true.
C6_ReadyImpliesAvailableAndValid ==
    \A e \in Entries : e.ready => (e.available /\ e.credentials_valid)

\* C6 witness: a published snapshot holding a ready entry, an entry whose
\* validation failed and an unconfigured entry
C6_Witness ==
    /\ polls >= 1
    /\ \E p, q, u \in DOMAIN Snapshot.provider_details :
        /\ Snapshot.provider_details[p].ready
        /\ Snapshot.provider_details[q].available
        /\ ~ Snapshot.provider_details[q].credentials_valid
        /\ ~ Snapshot.provider_details[u].available

\* what the last poll cycle's get_provider_status call did
LastPoll == poll_log[polls]

AnyReady(provider_status) == \E p \in DOMAIN provider_status : provider_status[p].ready

\* C7: after every poll cycle the snapshot status is healthy iff the poll
\* returned with at least one ready entry, degraded iff it returned with none
\* ready (also when no backend is configured), unhealthy iff the poll raised.
C7_StatusAfterPoll ==
    polls >= 1 =>
        /\ Snapshot.status = "healthy" <=> (~ LastPoll.raised /\ AnyReady(LastPoll.status))
        /\ Snapshot.status = "degraded" <=> (~ LastPoll.raised /\ ~ AnyReady(LastPoll.status))
        /\ Snapshot.status = "unhealthy" <=> LastPoll.raised

\* C7 witness: no backend is configured, the poll returned, the status is degraded
C7_Witness ==
    /\ polls >= 1
    /\ credentials = {}
    /\ ~ LastPoll.raised
    /\ Snapshot.status = "degraded"

\* C8: every GET /health response has code 503 iff the status of the snapshot
\* it returns is unhealthy, and 200 otherwise.
C8_CodeMatchesBody ==
    \A r \in Readers :
        rd_resp[r] # <<>> =>
            /\ rd_resp[r][1].code = 503 <=> rd_resp[r][1].body.status = "unhealthy"
            /\ rd_resp[r][1].code = 200 <=> rd_resp[r][1].body.status # "unhealthy"

\* C9: the poller replaces the snapshot as a whole object: a dict once
\* allocated is never changed, and every response body is one complete
\* published snapshot.
C9_WholeObjectReplacement ==
    /\ [][\A i \in DOMAIN heap : i \in DOMAIN heap' /\ heap'[i] = heap[i]]_vars
    /\ [](\A r \in Readers :
            rd_resp[r] # <<>> => \E i \in DOMAIN heap : heap[i] = rd_resp[r][1].body)

\* C9 witness: a refresh ran between the two reads of one handler, and the
\* body sent is the snapshot published by that refresh
C9_Witness ==
    \E r \in Readers :
        /\ rd_resp[r] # <<>>
        /\ rd_resp[r][1].body.status # rd_status[r]
        /\ rd_resp[r][1].body = Snapshot
        /\ health_state > 1

\* C10: when get_provider_status raises, the snapshot published by that cycle
\* is unhealthy with ready_providers = 0, the error captured and no provider
\* details of the previous snapshot; it replaces the previous snapshot. A
\* poll that returns publishes error = None.
C10_PollErrorPublished ==
    polls >= 1 =>
        /\ Snapshot.last_updated = LastPoll.time
        /\ LastPoll.raised =>
            /\ Snapshot.status = "unhealthy"
            /\ Snapshot.ready_providers = 0
            /\ Snapshot.total_providers = 0
            /\ Snapshot.error # None
            /\ Snapshot.error = LastPoll.error
            /\ DOMAIN Snapshot.provider_details = {}
        /\ ~ LastPoll.raised => Snapshot.error = None

\* C10 witness: a poll found a ready backend, and the next poll raised
C10_Witness ==
    /\ polls = 2
    /\ ~ poll_log[1].raised
    /\ AnyReady(poll_log[1].status)
    /\ poll_log[2].raised
    /\ Snapshot.status = "unhealthy"

----------------------------------------------------------------------------
\* Properties of FallbackManager.__init__

\* the backends named by a sequence of provider names
Backends(seq) == {Lower(seq[i]) : i \in DOMAIN seq}

\* C17: built without an explicit fallback list, whatever the primary is, the
\* fallback list is a permutation of the three backends other than the
\* primary, so the candidate sequence holds each of the four backends exactly
\* once, the primary first.
C17_DefaultFallbacksPermutation ==
    (arg_fallbacks = <<>> /\ fm_pc # "idle") =>
        /\ Len(fallback_providers) = 3
        /\ Backends(fallback_providers) = Supported \ {Lower(primary_provider)}
        /\ Len(providers_to_try) = 4
        /\ Backends(providers_to_try) = Supported
        /\ providers_to_try[1] = primary_provider

\* C18: with an explicit fallback list, the candidate sequence is exactly
\* [primary] followed by that list, also for the empty list.
C18_ExplicitFallbacksUsed ==
    (arg_fallbacks # <<>> /\ fm_pc # "idle") =>
        providers_to_try = <<primary_provider>> \o arg_fallbacks[1]

----------------------------------------------------------------------------
\* Properties of POST /alert

\* the request in hand has been answered
Answered == al_resp # <<>>

Response == al_resp[1]

\* the parts of a notification's content
Parts(payload) == {payload.content[i] : i \in DOMAIN payload.content}

\* C11: a POST /alert whose body is not well-formed JSON (parsing fails or
\* yields no JSON object) is answered with HTTP 400, and no provider is
\* instantiated, validated or asked to analyze for it.
C11_MalformedBodyIs400 ==
    (Answered /\ al_body # "object") =>
        /\ Response.code = 400
        /\ calls = <<>>
        /\ sink_log = <<>>

\* C12: for a well-formed alert, when the analysis succeeds and the sink
\* answers 204, the response is HTTP 200 with provider, model and
\* fallback_used taken from the analysis outcome, and exactly one notification
\* was sent, containing the analysis text and the provider name, with the
\* marker "(FALLBACK)" iff fallback_used.
C12_SuccessRoundTrip ==
    (Answered /\ al_body = "object" /\ Succeeded
        /\ sink_log # <<>> /\ sink_log[1].answer = "204") =>
        /\ Response.code = 200
        /\ Response.json.status = "success"
        /\ Response.json.provider = outcome[1].provider_used
        /\ Response.json.provider = providers_to_try[LastTried]
        /\ Response.json.model = outcome[1].model_used
        /\ Response.json.model = get_model_for_provider(providers_to_try[LastTried],
                                                        AI_MODEL_PROVIDER)
        /\ Response.json.fallback_used = outcome[1].fallback_used
        /\ Len(sink_log) = 1
        /\ outcome[1].analysis \in Parts(sink_log[1].payload)
        /\ outcome[1].provider_used \in Parts(sink_log[1].payload)
        /\ (" (FALLBACK)" \in Parts(sink_log[1].payload)) <=> outcome[1].fallback_used

\* C12 witness: a fallback answered, the sink accepted, the response is 200
C12_Witness ==
    /\ Answered
    /\ Response.code = 200
    /\ Succeeded
    /\ outcome[1].fallback_used
    /\ Len(sink_log) = 1

\* C13: the sink is called only after analyze_with_fallback returned success,
\* at most once per request; when all providers are exhausted the response is
\* HTTP 500 with the ordered providers_tried list and the sink is never called.
C13_SinkOnlyAfterSuccess ==
    /\ Len(sink_log) <= 1
    /\ sink_log # <<>> => (fm_pc = "done" /\ Succeeded)
    /\ (Answered /\ Exhausted) =>
        /\ Response.code = 500
        /\ "providers_tried" \in DOMAIN Response.json
        /\ Response.json.providers_tried = <<primary_provider>> \o fallback_providers
        /\ sink_log = <<>>

\* C13 witness: all four candidates failed and the request was answered
C13_Witness ==
    /\ Answered
    /\ Exhausted
    /\ Len(providers_to_try) = 4
    /\ Response.code = 500

\* messages of the responses that report a failed delivery
DeliveryMessages ==
    {<<"Failed to send message to Discord">>,
     <<"Failed to send Discord notification: ", "connection error">>}

\* C14: when the analysis succeeded but the sink answers a status other than
\* 204 or the call fails at transport level, the response is HTTP 500 with a
\* delivery-specific message that differs from the all-providers-failed
\* message and carries no providers_tried; it is never 200, and no provider
\* is called again.
C14_DeliveryFailureIs500 ==
    (Answered /\ sink_log # <<>> /\ sink_log[1].answer # "204") =>
        /\ Succeeded
        /\ Response.code = 500
        /\ Response.json.message \in DeliveryMessages
        /\ Response.json.message[1] # "All AI providers failed. Last error: "
        /\ "providers_tried" \notin DOMAIN Response.json
        /\ Len(calls) = sink_log[1].calls_before

\* C14 witness: the sink answered another status after a successful analysis
C14_Witness ==
    /\ Answered
    /\ Succeeded
    /\ sink_log # <<>>
    /\ sink_log[1].answer = "other_status"
    /\ Response.code = 500

----------------------------------------------------------------------------
\* Properties of get_provider_status

\* get_provider_status returned its dict
StatusReturned == st_pc \in {"respond", "done"} /\ st_error = None

CalledOn(op, p) == \E i \in DOMAIN st_calls : st_calls[i].op = op /\ st_calls[i].name = p

\* C15: get_provider_status returns an entry for each of the four known
\* backends; for a backend the factory reports as not configured the entry has
\* available = false and ready = false, and validate_credentials is never
\* called for it.
C15_UnconfiguredNotChecked ==
    /\ \A p \in Supported : p \notin credentials => ~ CalledOn("validate", p)
    /\ StatusReturned =>
        /\ DOMAIN st_status = Supported
        /\ \A p \in Supported :
            ~ st_avail[p] =>
                /\ p \notin credentials
                /\ ~ st_status[p].available
                /\ ~ st_status[p].ready
                /\ ~ CalledOn("validate", p)
                /\ ~ CalledOn("create", p)

\* C15 witness: a status with an unconfigured backend and a validated one
C15_Witness ==
    /\ StatusReturned
    /\ \E p, q \in Supported :
        /\ ~ st_avail[p]
        /\ st_avail[q]
        /\ CalledOn("validate", q)

\* C16: in every entry get_provider_status returns, available is true iff the
\* factory reported the backend as configured, also where instantiation or
\* validation threw and an error string was captured.
C16_AvailableIffConfigured ==
    StatusReturned =>
        \A p \in Supported : st_status[p].available <=> st_avail[p]

----------------------------------------------------------------------------
\* Properties of concurrent provider construction

\* a construction that runs alone clears every proxy variable before the
\* client is built and raises nothing
AloneOutcome == Instance({})

\* C19: when two provider instantiations run concurrently, the outcome of each
\* (instance created, or which error is raised) is the same as if it had run
\* alone, under every interleaving of their steps.
C19_OutcomeAsAlone ==
    \A c \in Constructors :
        ct_pc[c] = "done" => ct_result[c][1].kind = AloneOutcome.kind

----------------------------------------------------------------------------
\* Properties of the service as a whole

----------------------------------------------------------------------------
\* Properties of start-up

\* the selected provider's required credential or endpoint is absent
CredentialAbsent ==
    /\ Lower(AI_MODEL_PROVIDER) \in Supported
    /\ Lower(AI_MODEL_PROVIDER) \notin credentials

\* no request was received or answered
NothingServed ==
    /\ \A r \in Readers : rd_pc[r] = "idle" /\ rd_resp[r] = <<>>
    /\ al_pc = "idle" /\ al_resp = <<>>
    /\ st_pc = "idle"

\* C21: at startup, if the selected provider's required credential or endpoint
\* is absent, validation raises before the poller is started and before any
\* request is served; the poller thread is started only after validation
\* succeeded.
C21_ValidationBeforePoller ==
    /\ CredentialAbsent =>
        /\ main_pc \in {"validate", "failed"}
        /\ poll_pc = "off"
        /\ polls = 0
        /\ heap = <<InitialHealthState(AI_MODEL_PROVIDER)>>
        /\ NothingServed
    /\ poll_pc # "off" => main_pc = "serving" /\ ~ CredentialAbsent
    /\ main_pc = "failed" => CredentialAbsent

\* C21 witness: validation raised and the process stopped with no poller
C21_Witness ==
    /\ main_pc = "failed"
    /\ CredentialAbsent
    /\ poll_pc = "off"

----------------------------------------------------------------------------
\* Further properties of analyze_with_fallback

\* the call at index i of the history failed before analyze: a create that
\* raised or a validate_credentials that returned false
FailedBeforeAnalyze(i) == calls[i].op \in {"create", "validate"} /\ ~ calls[i].ok

\* C22: analyze is called on a candidate only after that candidate was
\* instantiated successfully and its validate_credentials returned true in the
\* same attempt; a configuration failure or a false validation moves on to the
\* next candidate without calling analyze on the failing one.
C22_AnalyzeOnlyAfterValidation ==
    /\ fm_pc = "analyze" =>
        /\ Len(calls) >= 2
        /\ calls[Len(calls)].op = "validate" /\ calls[Len(calls)].ok
        /\ calls[Len(calls)].pos = idx
    /\ \A i \in DOMAIN calls :
        /\ calls[i].op = "analyze" =>
            /\ i >= 3
            /\ calls[i - 1].op = "validate" /\ calls[i - 1].ok
            /\ calls[i - 1].pos = calls[i].pos
            /\ calls[i - 2].op = "create" /\ calls[i - 2].ok
            /\ calls[i - 2].pos = calls[i].pos
        /\ calls[i].op = "validate" =>
            /\ i >= 2
            /\ calls[i - 1].op = "create" /\ calls[i - 1].ok
            /\ calls[i - 1].pos = calls[i].pos
        /\ FailedBeforeAnalyze(i) =>
            /\ \A j \in DOMAIN calls :
                calls[j].pos = calls[i].pos => calls[j].op # "analyze"
            /\ i < Len(calls) =>
                /\ calls[i + 1].op = "create"
                /\ calls[i + 1].pos = calls[i].pos + 1
            /\ i = Len(calls) =>
                /\ fm_pc \in {"create", "done"}
                /\ fm_pc = "create" => idx = calls[i].pos + 1

\* C22 witness: a candidate failed validation, the next one was analyzed
C22_Witness ==
    /\ \E i \in DOMAIN calls : calls[i].op = "validate" /\ ~ calls[i].ok
    /\ \E i \in DOMAIN calls : calls[i].op = "create" /\ ~ calls[i].ok
    /\ \E i \in DOMAIN calls : calls[i].op = "analyze"

\* indices of the history at which a candidate raised (create_provider or
\* analyze_alert); a false validate_credentials raises nothing
RaisedAt == {i \in DOMAIN calls : calls[i].op \in {"create", "analyze"} /\ ~ calls[i].ok}

\* indices of the history at which a candidate failed in any way
FailedCalls == {i \in DOMAIN calls : ~ calls[i].ok}

Max(S) == CHOOSE x \in S : \A y \in S : y <= x

\* the messages the failed call e can have raised
ErrorsRaisedBy(e) ==
    IF e.op = "analyze" THEN AnalyzeErrors(Lower(e.name))
    ELSE IF create_provider_error(e.name, credentials) # None
         THEN {create_provider_error(e.name, credentials)}
         ELSE {CtorError(Lower(e.name))}

\* C23: when all candidates are exhausted, the failure outcome's error message
\* carries the error of the most recent candidate in sequence order that
\* raised; a candidate that only failed validate_credentials does not replace
\* the recorded last error; and whenever at least one candidate failed the
\* message identifies an actual failure cause.
C23_LastErrorIsActualCause ==
    Exhausted =>
        /\ RaisedAt # {} => outcome[1].error[2] \in ErrorsRaisedBy(calls[Max(RaisedAt)])
        /\ FailedCalls # {} => outcome[1].error[2] # None

----------------------------------------------------------------------------
\* Properties of the health snapshot

\* a step of a route handler: GET /health, GET /status, GET /live, POST /alert
HandlerStep ==
    \/ rd_vars' # rd_vars
    \/ st_vars' # st_vars
    \/ alert_vars' # alert_vars
    \/ call_vars' # call_vars

\* the snapshot binding or a published dict changed
SnapshotWritten == health_state' # health_state \/ heap' # heap

\* C24: the shared health snapshot is written only by the background poller:
\* handling GET /health, GET /status, GET /live and POST /alert leaves it
\* unchanged, and its current_provider and current_model fields are never
\* changed by any poll cycle.
C24_OnlyPollerWritesSnapshot ==
    /\ [][/\ HandlerStep => ~ SnapshotWritten
          /\ SnapshotWritten => poll_pc = "refresh" /\ poll_pc' = "sleep" /\ polls' = polls + 1
          /\ heap'[health_state'].current_provider = heap[health_state].current_provider
          /\ heap'[health_state'].current_model = heap[health_state].current_model]_vars
    /\ [](/\ heap[health_state].current_provider = AI_MODEL_PROVIDER
          /\ heap[health_state].current_model = AI_MODEL_NAME)

\* C24 witness: every kind of handler has answered and the poller has
\* published
C24_Witness ==
    /\ polls > 0
    /\ heap[health_state].last_updated = polls
    /\ rd_resp[LiveReader] # <<>>
    /\ st_pc = "done"
    /\ lv_resp # <<>>
    /\ al_resp # <<>>
    /\ al_pc = "idle"

\* the status values a poll cycle publishes
PolledStatuses == {"healthy", "degraded", "unhealthy"}

\* C25: the snapshot status is unknown from process start until the first
\* poll cycle completes (GET /health then answers 200 with status unknown);
\* once a poll cycle has published, the status is one of healthy, degraded or
\* unhealthy and never returns to unknown; under fair scheduling of the poller
\* the status eventually leaves unknown.
C25_UnknownUntilFirstPoll ==
    /\ [](polls = 0 => Snapshot.status = "unknown")
    /\ [](polls > 0 => Snapshot.status \in PolledStatuses)
    /\ [](rd_resp[LiveReader] # <<>> /\ rd_resp[LiveReader][1].body.status = "unknown"
            => rd_resp[LiveReader][1].code = 200)
    /\ [][Snapshot.status # "unknown" => heap'[health_state'].status # "unknown"]_vars
    /\ (main_pc = "serving") ~> (Snapshot.status # "unknown")
    /\ (main_pc = "validate" /\ ~ CredentialAbsent) ~> (Snapshot.status # "unknown")

\* C25 witness: GET /health answered 200 with status unknown before the first
\* poll, and a poll has published since
C25_Witness ==
    /\ rd_resp[LiveReader] # <<>>
    /\ rd_resp[LiveReader][1].body.status = "unknown"
    /\ rd_resp[LiveReader][1].code = 200
    /\ polls > 0
    /\ Snapshot.status \in PolledStatuses

\* the snapshot dict s is internally consistent
Consistent(s) ==
    /\ s.ready_providers =
        Cardinality({p \in DOMAIN s.provider_details : s.provider_details[p].ready})
    /\ s.total_providers = Cardinality(DOMAIN s.provider_details)
    /\ s.status = "healthy" <=> s.ready_providers > 0
    /\ s.error # None <=> s.status = "unhealthy"

\* C26: every published health snapshot is internally consistent:
\* ready_providers equals the number of entries of provider_details with ready
\* true, total_providers equals the number of entries, status is healthy iff
\* ready_providers > 0, and error is non-null iff status is unhealthy.
C26_SnapshotConsistent ==
    \A i \in DOMAIN heap : Consistent(heap[i])

\* C26 witness: a healthy snapshot with some but not all entries ready and an
\* unhealthy snapshot were published
C26_Witness ==
    /\ \E i \in DOMAIN heap :
        /\ heap[i].status = "healthy"
        /\ heap[i].ready_providers > 0
        /\ heap[i].total_providers > heap[i].ready_providers
    /\ \E i \in DOMAIN heap : heap[i].status = "unhealthy" /\ heap[i].error # None

----------------------------------------------------------------------------
\* Further properties of concurrent provider construction

\* no provider construction is in flight
NoConstructionInFlight == \A c \in Constructors : ct_pc[c] \in {"off", "done"}

\* C27: after every provider construction that was in flight has finished
\* (successfully or with an error), the proxy environment variables have the
\* same presence and values as before the constructions started, under every
\* interleaving of concurrent constructions.
C27_EnvironRestored ==
    NoConstructionInFlight => environ = environ0

----------------------------------------------------------------------------
\* Properties of GET /status

\* HTTP server-error status codes
ServerErrorCodes == {c \in 0..999 : c \div 100 = 5}

\* C28: GET /status answers 200 with status healthy or degraded whenever its
\* recomputation returns, and answers with status unhealthy and a server-error
\* (5xx) code whenever get_provider_status raises, the same code /health uses
\* for unhealthy.
C28_StatusRouteCodes ==
    st_pc = "done" =>
        IF st_error = None
        THEN /\ st_resp[1].code = 200
             /\ st_resp[1].json.status \in {"healthy", "degraded"}
        ELSE /\ st_resp[1].json.status = "unhealthy"
             /\ st_resp[1].code \in ServerErrorCodes
             /\ st_resp[1].code = StatusCode("unhealthy")

====
